---------------------------- MODULE Spec2Model ----------------------------
(***************************************************************************)
(* Amana Bookstore Express API (src/server.js).                            *)
(*                                                                         *)
(* Two JSON files (books.json, reviews.json) are the persistent state.     *)
(* Every request is handled by an async route handler: the part before the *)
(* first await runs when the request is received, the part after the file  *)
(* read runs when the read completes, and the response to a POST is sent   *)
(* when the file write completes.  Requests in flight interleave at these  *)
(* await points.                                                           *)
(*                                                                         *)
(* JavaScript values are tagged records [t, v]; strings are sequences of   *)
(* one-character strings so that parseInt, toString, Date parsing and the  *)
(* router's case folding and URL decoding are computed, not assumed.       *)
(* Reads and writes of the data files are assumed to succeed (the 500      *)
(* branches of the handlers are not modelled).                             *)
(***************************************************************************)
EXTENDS Integers, Sequences, FiniteSets, TLC

(***************************************************************************)
(* JavaScript values                                                       *)
(***************************************************************************)
Undef   == [t |-> "undef", v |-> 0]
Num(n)  == [t |-> "num",   v |-> n]
NaN     == [t |-> "nan",   v |-> 0]
NegInf  == [t |-> "ninf",  v |-> 0]
Str(s)  == [t |-> "str",   v |-> s]
Bool(b) == [t |-> "bool",  v |-> b]


\* ToBoolean: what `!x`, `x || y` and `x && y` test.
Truthy(x) ==
  CASE x.t = "undef" -> FALSE
    [] x.t = "num"   -> x.v # 0
    [] x.t = "nan"   -> FALSE
    [] x.t = "ninf"  -> TRUE
    [] x.t = "str"   -> Len(x.v) > 0
    [] x.t = "bool"  -> x.v

\* a || b
OrElse(a, b) == IF Truthy(a) THEN a ELSE b

\* a !== undefined ? a : b
DefinedOr(a, b) == IF a # Undef THEN a ELSE b

Digits == <<"0", "1", "2", "3", "4", "5", "6", "7", "8", "9">>

IsDigit(c) == \E i \in 1..Len(Digits) : Digits[i] = c

DigitVal(c) == (CHOOSE i \in 1..Len(Digits) : Digits[i] = c) - 1

\* The length of the longest prefix of s made of digits.
RECURSIVE DigitPrefix(_)
DigitPrefix(s) ==
  IF s = <<>> \/ ~IsDigit(Head(s)) THEN 0 ELSE 1 + DigitPrefix(Tail(s))

\* The value of a sequence of digits.
RECURSIVE DigitsValue(_)
DigitsValue(s) ==
  IF s = <<>> THEN 0
  ELSE 10 * DigitsValue(SubSeq(s, 1, Len(s) - 1)) + DigitVal(s[Len(s)])

\* The decimal digits of n >= 0.
RECURSIVE NatToChars(_)
NatToChars(n) ==
  IF n < 10 THEN <<Digits[n + 1]>>
  ELSE NatToChars(n \div 10) \o <<Digits[(n % 10) + 1]>>

\* Number.prototype.toString, as a sequence of characters.
NumberChars(x) ==
  CASE x.t = "nan"  -> <<"N", "a", "N">>
    [] x.t = "ninf" -> <<"-", "I", "n", "f", "i", "n", "i", "t", "y">>
    [] x.t = "num"  -> IF x.v < 0 THEN <<"-">> \o NatToChars(-x.v)
                       ELSE NatToChars(x.v)

\* ToString of the values the model holds.
ToChars(x) ==
  CASE x.t = "str"   -> x.v
    [] x.t = "undef" -> <<"u", "n", "d", "e", "f", "i", "n", "e", "d">>
    [] x.t = "bool"  -> IF x.v THEN <<"t", "r", "u", "e">>
                        ELSE <<"f", "a", "l", "s", "e">>
    [] OTHER         -> NumberChars(x)

\* parseInt(x): ToString, an optional sign, then the leading digits; NaN
\* when there is no leading digit.
ParseInt(x) ==
  LET s    == ToChars(x)
      neg  == s # <<>> /\ Head(s) = "-"
      body == IF s # <<>> /\ Head(s) \in {"-", "+"} THEN Tail(s) ELSE s
      n    == DigitPrefix(body)
  IN  IF n = 0 THEN NaN
      ELSE Num((IF neg THEN -1 ELSE 1) * DigitsValue(SubSeq(body, 1, n)))

\* The larger of two numbers as Math.max takes it: NaN if either is NaN.
Max2(a, b) ==
  CASE a.t = "nan" \/ b.t = "nan" -> NaN
    [] a.t = "ninf"               -> b
    [] b.t = "ninf"               -> a
    [] OTHER                      -> IF a.v >= b.v THEN a ELSE b

RECURSIVE MaxFrom(_, _)
MaxFrom(acc, xs) ==
  IF xs = <<>> THEN acc ELSE MaxFrom(Max2(acc, Head(xs)), Tail(xs))

\* Math.max(...xs): -Infinity for no argument, NaN if any argument is NaN.
MathMax(xs) == MaxFrom(NegInf, xs)

\* x + 1 for a number x.
PlusOne(x) == IF x.t = "num" THEN Num(x.v + 1) ELSE x

\* a * b after ToNumber of each operand: a string that is not all digits, and
\* undefined, convert to NaN; booleans do not occur as operands here.
ToNumber(x) ==
  CASE x.t = "str"   -> IF x.v = <<>> THEN Num(0)
                        ELSE IF DigitPrefix(x.v) = Len(x.v)
                             THEN Num(DigitsValue(x.v)) ELSE NaN
    [] x.t = "undef" -> NaN
    [] x.t = "bool"  -> Num(IF x.v THEN 1 ELSE 0)
    [] OTHER         -> x

Times(a, b) ==
  LET x == ToNumber(a)
      y == ToNumber(b)
  IN  CASE x.t = "nan" \/ y.t = "nan" -> NaN
        [] x.t = "ninf" \/ y.t = "ninf" ->
             IF (x.t = "num" /\ x.v = 0) \/ (y.t = "num" /\ y.v = 0) THEN NaN
             ELSE NegInf
        [] OTHER -> Num(x.v * y.v)

(***************************************************************************)
(* new Date(string)                                                        *)
(***************************************************************************)
IsLeap(y) == (y % 4 = 0 /\ y % 100 # 0) \/ y % 400 = 0

\* ECMAScript DayFromYear: the day number of 1 January of year y.
DayFromYear(y) ==
  365 * (y - 1970) + ((y - 1969) \div 4) - ((y - 1901) \div 100)
    + ((y - 1601) \div 400)

MonthDays(y) ==
  <<31, IF IsLeap(y) THEN 29 ELSE 28, 31, 30, 31, 30, 31, 31, 30, 31, 30, 31>>

RECURSIVE DaysBeforeMonth(_, _)
DaysBeforeMonth(y, m) ==
  IF m = 1 THEN 0 ELSE DaysBeforeMonth(y, m - 1) + MonthDays(y)[m - 1]

\* ECMAScript MakeDay: a day past the end of the month runs into the next.
MakeDay(y, m, d) == DayFromYear(y) + DaysBeforeMonth(y, m) + (d - 1)

AllDigits(s) == s # <<>> /\ DigitPrefix(s) = Len(s)

\* The time value of new Date(x), in days since the epoch (a date-only string
\* is UTC midnight); NaN for an Invalid Date.  The date-only forms YYYY,
\* YYYY-MM and YYYY-MM-DD are parsed; the month must be 1..12 and the day
\* 1..31, whatever the month.  new Date(undefined) is an Invalid Date.
DateValue(x) ==
  IF x.t # "str" THEN NaN
  ELSE LET s == x.v
           y == DigitsValue(SubSeq(s, 1, 4))
           m == DigitsValue(SubSeq(s, 6, 7))
           d == DigitsValue(SubSeq(s, 9, 10))
       IN  CASE Len(s) = 4 /\ AllDigits(s) -> Num(MakeDay(y, 1, 1))
             [] Len(s) = 7 /\ AllDigits(SubSeq(s, 1, 4)) /\ s[5] = "-"
                  /\ AllDigits(SubSeq(s, 6, 7)) ->
                  IF m \in 1..12 THEN Num(MakeDay(y, m, 1)) ELSE NaN
             [] Len(s) = 10 /\ AllDigits(SubSeq(s, 1, 4)) /\ s[5] = "-"
                  /\ AllDigits(SubSeq(s, 6, 7)) /\ s[8] = "-"
                  /\ AllDigits(SubSeq(s, 9, 10)) ->
                  IF m \in 1..12 /\ d \in 1..31 THEN Num(MakeDay(y, m, d))
                  ELSE NaN
             [] OTHER -> NaN

\* isNaN(date.getTime())
IsInvalidDate(tv) == tv.t = "nan"

\* a > b and a <= b on two Dates: false when either is an Invalid Date.
DateGreater(a, b) == a.t = "num" /\ b.t = "num" /\ a.v > b.v
DateLeq(a, b)     == a.t = "num" /\ b.t = "num" /\ a.v <= b.v
DateGeq(a, b)     == a.t = "num" /\ b.t = "num" /\ a.v >= b.v

(***************************************************************************)
(* Express routing: case folding and parameter decoding                    *)
(***************************************************************************)
UpperLetters == <<"A", "B", "C", "D", "E", "F", "G", "H", "I", "J", "K", "L",
  "M", "N", "O", "P", "Q", "R", "S", "T", "U", "V", "W", "X", "Y", "Z">>

LowerLetters == <<"a", "b", "c", "d", "e", "f", "g", "h", "i", "j", "k", "l",
  "m", "n", "o", "p", "q", "r", "s", "t", "u", "v", "w", "x", "y", "z">>

LowerChar(c) ==
  IF \E i \in 1..Len(UpperLetters) : UpperLetters[i] = c
  THEN LowerLetters[CHOOSE i \in 1..Len(UpperLetters) : UpperLetters[i] = c]
  ELSE c

\* The app is created with Express's default settings: "case sensitive
\* routing" is off, so a route path is matched without regard to case.
FoldCase(s) == [i \in 1..Len(s) |-> LowerChar(s[i])]

HexDigits == <<"0", "1", "2", "3", "4", "5", "6", "7", "8", "9", "a", "b", "c", "d", "e", "f">>

IsHex(c) == \E i \in 1..Len(HexDigits) : HexDigits[i] = LowerChar(c)

HexVal(c) == (CHOOSE i \in 1..Len(HexDigits) : HexDigits[i] = LowerChar(c)) - 1

\* The character of an ASCII code: digits, upper-case and lower-case letters.
IsAlnumCode(n) == n \in 48..57 \/ n \in 65..90 \/ n \in 97..122

CodeChar(n) ==
  CASE n \in 48..57  -> Digits[n - 47]
    [] n \in 65..90  -> UpperLetters[n - 64]
    [] n \in 97..122 -> LowerLetters[n - 96]

\* Whether decodeURIComponent accepts s: every % is followed by two hex
\* digits.  Only escapes of digits and letters are drawn by the model; any
\* other escape counts as malformed.
RECURSIVE Decodable(_)
Decodable(s) ==
  IF s = <<>> THEN TRUE
  ELSE IF Head(s) # "%" THEN Decodable(Tail(s))
       ELSE /\ Len(s) >= 3 /\ IsHex(s[2]) /\ IsHex(s[3])
            /\ IsAlnumCode(16 * HexVal(s[2]) + HexVal(s[3]))
            /\ Decodable(SubSeq(s, 4, Len(s)))

\* decodeURIComponent(s) for a decodable s.
RECURSIVE Decoded(_)
Decoded(s) ==
  IF s = <<>> THEN <<>>
  ELSE IF Head(s) # "%" THEN <<Head(s)>> \o Decoded(Tail(s))
       ELSE <<CodeChar(16 * HexVal(s[2]) + HexVal(s[3]))>>
              \o Decoded(SubSeq(s, 4, Len(s)))

\* A route parameter as Express decodes it: ok is FALSE for a malformed
\* escape.
DecodeParam(s) ==
  IF Decodable(s) THEN [ok |-> TRUE, s |-> Decoded(s)]
  ELSE [ok |-> FALSE, s |-> <<>>]

\* Path segments the routes name.
SegApi       == <<"a", "p", "i">>
SegBooks     == <<"b", "o", "o", "k", "s">>
SegReviews   == <<"r", "e", "v", "i", "e", "w", "s">>
SegBook      == <<"b", "o", "o", "k">>
SegDateRange == <<"d", "a", "t", "e", "-", "r", "a", "n", "g", "e">>
SegFeatured  == <<"f", "e", "a", "t", "u", "r", "e", "d">>
SegTopRated  == <<"t", "o", "p", "-", "r", "a", "t", "e", "d">>

Lit(s)   == [lit |-> TRUE,  s |-> s]
Param(n) == [lit |-> FALSE, s |-> n]

\* The routes with /api/books/:id registered before the literal paths.
RoutesIdFirst ==
  << [method |-> "GET",  pattern |-> <<>>, handler |-> "root", auth |-> FALSE],
     [method |-> "GET",  pattern |-> <<Lit(SegApi), Lit(SegBooks)>>,
      handler |-> "listBooks", auth |-> FALSE],
     [method |-> "GET",  pattern |-> <<Lit(SegApi), Lit(SegBooks), Param("id")>>,
      handler |-> "bookById", auth |-> FALSE],
     [method |-> "GET",  pattern |-> <<Lit(SegApi), Lit(SegBooks), Lit(SegDateRange)>>,
      handler |-> "dateRange", auth |-> FALSE],
     [method |-> "GET",  pattern |-> <<Lit(SegApi), Lit(SegBooks), Lit(SegFeatured)>>,
      handler |-> "featured", auth |-> FALSE],
     [method |-> "GET",  pattern |-> <<Lit(SegApi), Lit(SegBooks), Lit(SegTopRated)>>,
      handler |-> "topRated", auth |-> FALSE],
     [method |-> "GET",
      pattern |-> <<Lit(SegApi), Lit(SegReviews), Lit(SegBook), Param("bookId")>>,
      handler |-> "reviewsByBook", auth |-> FALSE],
     [method |-> "POST", pattern |-> <<Lit(SegApi), Lit(SegBooks)>>,
      handler |-> "postBook", auth |-> TRUE],
     [method |-> "POST", pattern |-> <<Lit(SegApi), Lit(SegReviews)>>,
      handler |-> "postReview", auth |-> TRUE] >>

\* The routes in the order server.js registers them; auth is TRUE where
\* authenticateKey is mounted before the handler.
Routes ==
  << [method |-> "GET",  pattern |-> <<>>, handler |-> "root", auth |-> FALSE],
     [method |-> "GET",  pattern |-> <<Lit(SegApi), Lit(SegBooks)>>,
      handler |-> "listBooks", auth |-> FALSE],
     [method |-> "GET",  pattern |-> <<Lit(SegApi), Lit(SegBooks), Lit(SegDateRange)>>,
      handler |-> "dateRange", auth |-> FALSE],
     [method |-> "GET",  pattern |-> <<Lit(SegApi), Lit(SegBooks), Lit(SegFeatured)>>,
      handler |-> "featured", auth |-> FALSE],
     [method |-> "GET",  pattern |-> <<Lit(SegApi), Lit(SegBooks), Lit(SegTopRated)>>,
      handler |-> "topRated", auth |-> FALSE],
     [method |-> "GET",  pattern |-> <<Lit(SegApi), Lit(SegBooks), Param("id")>>,
      handler |-> "bookById", auth |-> FALSE],
     [method |-> "GET",
      pattern |-> <<Lit(SegApi), Lit(SegReviews), Lit(SegBook), Param("bookId")>>,
      handler |-> "reviewsByBook", auth |-> FALSE],
     [method |-> "POST", pattern |-> <<Lit(SegApi), Lit(SegBooks)>>,
      handler |-> "postBook", auth |-> TRUE],
     [method |-> "POST", pattern |-> <<Lit(SegApi), Lit(SegReviews)>>,
      handler |-> "postReview", auth |-> TRUE] >>

\* A pattern segment against a path segment: a literal matches the segment
\* with case folded, a parameter matches any non-empty segment.
SegMatches(p, seg) ==
  IF p.lit THEN FoldCase(seg) = FoldCase(p.s) ELSE seg # <<>>

RouteMatches(r, method, path) ==
  /\ r.method = method
  /\ Len(r.pattern) = Len(path)
  /\ \A k \in 1..Len(path) : SegMatches(r.pattern[k], path[k])

\* The index of the first route from k on, in registration order, that
\* matches; 0 when none does.
RECURSIVE FirstMatch(_, _, _)
FirstMatch(k, method, path) ==
  IF k > Len(Routes) THEN 0
  ELSE IF RouteMatches(Routes[k], method, path) THEN k
       ELSE FirstMatch(k + 1, method, path)

Dispatch(method, path) == FirstMatch(1, method, path)

\* The handler of the route the router picks; "none" when no route matches.
HandlerOf(method, path) ==
  IF Dispatch(method, path) = 0 THEN "none"
  ELSE Routes[Dispatch(method, path)].handler

\* req.params.<name>: the decoding of the last path segment (both
\* parameterized routes have their parameter last).
RouteParam(path) == DecodeParam(path[Len(path)])

(***************************************************************************)
(* Objects, and the pure parts of the handlers                             *)
(***************************************************************************)
\* A JSON object: every property the model names, Undef where it is absent.
EmptyObj ==
  [id |-> Undef, title |-> Undef, author |-> Undef, price |-> Undef,
   rating |-> Undef, reviewCount |-> Undef, inStock |-> Undef,
   featured |-> Undef, datePublished |-> Undef, bookId |-> Undef,
   comment |-> Undef, timestamp |-> Undef, verified |-> Undef,
   score |-> Undef]

Fields == DOMAIN EmptyObj

\* { ...base, ...over }: every property over has replaces base's.
Spread(base, over) ==
  [f \in Fields |-> IF over[f] # Undef THEN over[f] ELSE base[f]]

VALID_API_KEYS == <<"amana-secret-key-12345">>

\* A key check that lets every non-empty header value through.
KeyAcceptedIfSent(key) == key # <<>> /\ key[1] # ""

\* authenticateKey: key is the X-API-Key header, <<>> when absent and <<k>>
\* when sent with value k.
KeyAccepted(key) ==
  /\ key # <<>>
  /\ key[1] # ""
  /\ \E k \in 1..Len(VALID_API_KEYS) : VALID_API_KEYS[k] = key[1]

Resp(status, count, data) == [status |-> status, count |-> count, data |-> data]

\* new Date().toISOString() and its date part, as read when a record is made.
NowIso == <<"2", "0", "2", "4", "-", "0", "3", "-", "0", "5", "T", "1", "0",
  ":", "0", "0", ":", "0", "0", ".", "0", "0", "0", "Z">>

Today == SubSeq(NowIso, 1, 10)

RECURSIVE MapParseIntId(_)
MapParseIntId(bs) ==
  IF bs = <<>> THEN <<>>
  ELSE <<ParseInt(Head(bs).id)>> \o MapParseIntId(Tail(bs))

\* (Math.max(...booksData.books.map((b) => parseInt(b.id))) + 1).toString()
NextBookId(bs) == Str(NumberChars(PlusOne(MathMax(MapParseIntId(bs)))))

\* POST /api/books: the validation before the file is read.
BookRejected(newBook) ==
  ~Truthy(newBook.title) \/ ~Truthy(newBook.author) \/ ~Truthy(newBook.price)

\* POST /api/books: bookToAdd.
BookToAdd(bs, newBook) ==
  [Spread([EmptyObj EXCEPT !.id = NextBookId(bs)], newBook) EXCEPT
     !.rating        = OrElse(newBook.rating, Num(0)),
     !.reviewCount   = OrElse(newBook.reviewCount, Num(0)),
     !.inStock       = DefinedOr(newBook.inStock, Bool(TRUE)),
     !.featured      = DefinedOr(newBook.featured, Bool(FALSE)),
     !.datePublished = OrElse(newBook.datePublished, Str(Today))]

\* A write that appends to the content the file has when it is written.
PushOnFile(readContent, fileContent, rec) == Append(fileContent, rec)

\* booksData.books.push(bookToAdd), the content writeJsonFile is given: the
\* content that was read, with the new record last.
PushRecord(readContent, fileContent, rec) == Append(readContent, rec)

\* POST /api/reviews: the validation before the file is read.
ReviewRejected(newReview) ==
  \/ ~Truthy(newReview.bookId)
  \/ ~Truthy(newReview.author)
  \/ ~Truthy(newReview.rating)
  \/ ~Truthy(newReview.comment)

\* crypto.randomUUID(): the n-th value generated; no two are equal.
RandomUUID(n) == <<"u">> \o NatToChars(n)

ReviewIdPrefix == <<"r", "e", "v", "i", "e", "w", "-">>

\* POST /api/reviews: reviewToAdd.
ReviewToAdd(newReview, uuid) ==
  [Spread([EmptyObj EXCEPT !.id = Str(ReviewIdPrefix \o uuid)], newReview) EXCEPT
     !.timestamp = Str(NowIso),
     !.verified  = DefinedOr(newReview.verified, Bool(FALSE))]

\* GET /api/books/date-range: the three 400 checks before the file is read.
DateRangeRejected(query) ==
  \/ ~Truthy(query.start) \/ ~Truthy(query.end)
  \/ IsInvalidDate(DateValue(query.start)) \/ IsInvalidDate(DateValue(query.end))
  \/ DateGreater(DateValue(query.start), DateValue(query.end))

\* A range that leaves out its last day.
InDateRangeOpen(book, query) ==
  /\ DateGeq(DateValue(book.datePublished), DateValue(query.start))
  /\ DateLeq(DateValue(book.datePublished), DateValue(query.end))
  /\ DateValue(book.datePublished) # DateValue(query.end)

\* bookDate >= startDate && bookDate <= endDate
InDateRange(book, query) ==
  /\ DateGeq(DateValue(book.datePublished), DateValue(query.start))
  /\ DateLeq(DateValue(book.datePublished), DateValue(query.end))

RECURSIVE FilterDateRange(_, _)
FilterDateRange(bs, query) ==
  IF bs = <<>> THEN <<>>
  ELSE (IF InDateRange(Head(bs), query) THEN <<Head(bs)>> ELSE <<>>)
         \o FilterDateRange(Tail(bs), query)

DateRangeResponse(bs, query) ==
  LET filteredBooks == FilterDateRange(bs, query)
  IN  Resp(200, Num(Len(filteredBooks)), filteredBooks)

\* GET /api/books/featured
FeaturedResponse(bs) ==
  LET featuredBooks == SelectSeq(bs, LAMBDA b : b.featured = Bool(TRUE))
  IN  Resp(200, Num(Len(featuredBooks)), featuredBooks)

\* GET /api/books
ListBooksResponse(bs) == Resp(200, Num(Len(bs)), bs)

\* GET /api/books/:id
BookByIdResponse(bs, bookId) ==
  IF \E k \in 1..Len(bs) : bs[k].id = Str(bookId)
  THEN Resp(200, Undef,
            <<bs[CHOOSE k \in 1..Len(bs) :
                   /\ bs[k].id = Str(bookId)
                   /\ \A j \in 1..(k - 1) : bs[j].id # Str(bookId)]>>)
  ELSE Resp(404, Undef, <<>>)

\* A handler that answers 404 when the book has no review.
ReviewsOr404(rs, bookId) ==
  LET bookReviews == SelectSeq(rs, LAMBDA r : r.bookId = Str(bookId))
  IN  IF Len(bookReviews) = 0 THEN Resp(404, Undef, <<>>)
      ELSE Resp(200, Num(Len(bookReviews)), bookReviews)

\* GET /api/reviews/book/:bookId
ReviewsByBookResponse(rs, bookId) ==
  LET bookReviews == SelectSeq(rs, LAMBDA r : r.bookId = Str(bookId))
  IN  IF Len(bookReviews) = 0 THEN Resp(200, Num(0), <<>>)
      ELSE Resp(200, Num(Len(bookReviews)), bookReviews)

\* GET /api/books/top-rated: score: book.rating * book.reviewCount
WithScore(book) == [book EXCEPT !.score = Times(book.rating, book.reviewCount)]

MapScore(bs) == [k \in 1..Len(bs) |-> WithScore(bs[k])]

\* The comparator with its operands exchanged: a.score - b.score.
SortAscending(a, b) ==
  IF a.score.t = "num" /\ b.score.t = "num" THEN a.score.v - b.score.v ELSE 0

\* The comparator (a, b) => b.score - a.score as Array.prototype.sort reads
\* it: a NaN result counts as +0.
SortCompare(a, b) ==
  IF a.score.t = "num" /\ b.score.t = "num" THEN b.score.v - a.score.v ELSE 0

\* Insertion of x into a sorted sequence, after every element that does not
\* have to follow it.
RECURSIVE InsertSorted(_, _)
InsertSorted(sorted, x) ==
  IF sorted = <<>> THEN <<x>>
  ELSE IF SortCompare(sorted[Len(sorted)], x) > 0
       THEN InsertSorted(SubSeq(sorted, 1, Len(sorted) - 1), x)
              \o <<sorted[Len(sorted)]>>
       ELSE Append(sorted, x)

\* Array.prototype.sort with the comparator: the sort is stable, so with
\* numeric scores its result is the one a stable insertion sort gives.
RECURSIVE StableSort(_)
StableSort(xs) ==
  IF xs = <<>> THEN <<>>
  ELSE InsertSorted(StableSort(SubSeq(xs, 1, Len(xs) - 1)), xs[Len(xs)])

\* .slice(0, 10)
TopN == 10

Slice(xs) == SubSeq(xs, 1, IF Len(xs) < TopN THEN Len(xs) ELSE TopN)

\* GET /api/books/top-rated
TopRatedResponse(bs) ==
  LET topRatedBooks == Slice(StableSort(MapScore(bs)))
  IN  Resp(200, Num(Len(topRatedBooks)), topRatedBooks)

(***************************************************************************)
(* The server                                                              *)
(***************************************************************************)
VARIABLES
  books,        \* the books array of data/books.json
  reviews,      \* the reviews array of data/reviews.json
  req,          \* the request each slot holds, with its handler's progress
  uuids,        \* how many values crypto.randomUUID() has returned
  lastCreated   \* the record of the last POST /api/books answered 201

vars == <<books, reviews, req, uuids, lastCreated>>

\* Two requests can be in flight at once.
Slots == {1, 2}

\* The data files stop growing at these lengths.
MaxBooks == 3

MaxReviews == 2

NoQuery == [start |-> Undef, end |-> Undef]

IdleReq ==
  [pc |-> "idle", method |-> "GET", path |-> <<>>, key |-> <<>>,
   body |-> EmptyObj, query |-> NoQuery, handler |-> "none",
   snap |-> <<>>, rec |-> EmptyObj, io |-> <<>>,
   status |-> 0, count |-> Undef, data |-> <<>>]

Request(method, path, key, body, query) ==
  [IdleReq EXCEPT !.method = method, !.path = path, !.key = key,
                  !.body = body, !.query = query]

Answer(r, handler, resp) ==
  [r EXCEPT !.pc = "done", !.handler = handler, !.status = resp.status,
            !.count = resp.count, !.data = resp.data]

\* What happens to request r, whose route has handler h, before the
\* handler's first await: authenticateKey runs where it is mounted, and the
\* handler validates its input.  The result is the answered request, or the
\* request waiting for its file read.
Routed(r, k, h) ==
  CASE k = 0 -> Answer(r, h, Resp(404, Undef, <<>>))
    [] k # 0 /\ Routes[k].auth /\ ~KeyAccepted(r.key) ->
         Answer(r, "authenticateKey", Resp(401, Undef, <<>>))
    [] h = "root" -> Answer(r, h, Resp(200, Undef, <<>>))
    [] h \in {"bookById", "reviewsByBook"} /\ ~RouteParam(r.path).ok ->
         Answer(r, "decodeError", Resp(400, Undef, <<>>))
    [] h = "postBook" /\ BookRejected(r.body) ->
         Answer(r, h, Resp(400, Undef, <<>>))
    [] h = "postReview" /\ ReviewRejected(r.body) ->
         Answer(r, h, Resp(400, Undef, <<>>))
    [] h = "dateRange" /\ DateRangeRejected(r.query) ->
         Answer(r, h, Resp(400, Undef, <<>>))
    [] OTHER -> [r EXCEPT !.pc = "reading", !.handler = h]

\* The router picks the route of request r and runs it.
OnReceive(r) ==
  Routed(r, Dispatch(r.method, r.path), HandlerOf(r.method, r.path))

\* The file a handler reads (and, for a POST, writes back).
FileOf(h) == IF h \in {"postReview", "reviewsByBook"} THEN "reviews.json" ELSE "books.json"

\* The response of a GET handler once its file is read.
Respond(r, bs, rs) ==
  CASE r.handler = "listBooks"     -> ListBooksResponse(bs)
    [] r.handler = "dateRange"     -> DateRangeResponse(bs, r.query)
    [] r.handler = "featured"      -> FeaturedResponse(bs)
    [] r.handler = "topRated"      -> TopRatedResponse(bs)
    [] r.handler = "bookById"      -> BookByIdResponse(bs, RouteParam(r.path).s)
    [] r.handler = "reviewsByBook" -> ReviewsByBookResponse(rs, RouteParam(r.path).s)

(***************************************************************************)
(* Inputs                                                                  *)
(***************************************************************************)
KeyValid  == <<VALID_API_KEYS[1]>>
KeyAbsent == <<>>
KeyEmpty  == <<"">>
KeyWrong  == <<"wrong-key">>

BadKeys == {KeyAbsent, KeyEmpty, KeyWrong}

\* A record of books.json as the seed data holds it.
SeedBook(id, date) ==
  [EmptyObj EXCEPT !.id = Str(id), !.title = Str(<<"S">>), !.author = Str(<<"A">>),
                   !.price = Num(9), !.rating = Num(4), !.reviewCount = Num(2),
                   !.inStock = Bool(TRUE), !.featured = Bool(id = <<"1">>),
                   !.datePublished = Str(date)]

Date2022 == <<"2", "0", "2", "2", "-", "0", "6", "-", "1", "5">>
Date2024 == <<"2", "0", "2", "4", "-", "0", "2", "-", "3", "0">>

\* A record of reviews.json as the seed data holds it.
SeedReviewId == ReviewIdPrefix \o <<"s", "e", "e", "d">>

SeedReview ==
  [EmptyObj EXCEPT !.id = Str(SeedReviewId), !.bookId = Str(<<"1">>),
                   !.author = Str(<<"A">>), !.rating = Num(5),
                   !.comment = Str(<<"C">>), !.timestamp = Str(Date2022),
                   !.verified = Bool(TRUE)]

\* The contents the data files start with: ids are numeric and unique.
InitBooks ==
  { <<>>, <<SeedBook(<<"1">>, Date2022)>>,
    <<SeedBook(<<"1">>, Date2022), SeedBook(<<"2">>, Date2024)>> }

InitReviews == { <<>>, <<SeedReview>> }

\* Bodies of POST /api/books.
BodyBook ==
  [EmptyObj EXCEPT !.title = Str(<<"T">>), !.author = Str(<<"A">>),
                   !.price = Num(5)]

BodyBookOther   == [BodyBook EXCEPT !.title = Str(<<"U">>), !.featured = Bool(TRUE)]
BodyBookWithId  == [BodyBook EXCEPT !.id = Str(SegFeatured)]
BodyBookNoTitle == [BodyBook EXCEPT !.title = Undef]
BodyBookNoName  == [BodyBook EXCEPT !.author = Str(<<>>)]
BodyBookFree    == [BodyBook EXCEPT !.price = Num(0)]

BookBodies ==
  {BodyBook, BodyBookOther, BodyBookWithId, BodyBookNoTitle, BodyBookNoName, BodyBookFree,
   EmptyObj}

\* Bodies of POST /api/reviews.
BodyReview ==
  [EmptyObj EXCEPT !.bookId = Str(<<"1">>), !.author = Str(<<"A">>),
                   !.rating = Num(4), !.comment = Str(<<"C">>)]

BodyReviewOrphan    == [BodyReview EXCEPT !.bookId = Str(<<"9">>)]
BodyReviewFull      ==
  [BodyReview EXCEPT !.id = Str(SeedReviewId), !.timestamp = Str(Date2022),
                     !.verified = Bool(TRUE)]
BodyReviewZero      == [BodyReview EXCEPT !.rating = Num(0)]
BodyReviewNoComment == [BodyReview EXCEPT !.comment = Undef]

ReviewBodies ==
  {BodyReview, BodyReviewOrphan, BodyReviewFull, BodyReviewZero,
   BodyReviewNoComment, EmptyObj}

\* Last segments of GET /api/books/<x>.
BookSegs ==
  { <<"1">>, <<"2">>, <<"3">>, <<"9">>, <<"N", "a", "N">>,
    <<"-", "I", "n", "f", "i", "n", "i", "t", "y">>,
    SegFeatured, SegTopRated, SegDateRange,
    <<"F", "E", "A", "T", "U", "R", "E", "D">>,
    <<"%", "6", "6", "e", "a", "t", "u", "r", "e", "d">>,
    <<"%", "6">> }

Year2024 == [start |-> Str(<<"2", "0", "2", "4", "-", "0", "1", "-", "0", "1">>), end |-> Str(<<"2", "0", "2", "4", "-", "1", "2", "-", "3", "1">>)]

PathBooks   == <<SegApi, SegBooks>>
PathReviews == <<SegApi, SegReviews>>

UnauthorizedRequests ==
  { Request("POST", p, k, b, NoQuery) :
      p \in {PathBooks, PathReviews}, k \in BadKeys,
      b \in {BodyBook, BodyReview, EmptyObj} }

\* The requests of the sequential server on books.json.
BookRequests ==
  { Request("POST", PathBooks, KeyValid, b, NoQuery) : b \in BookBodies }
    \cup UnauthorizedRequests
    \cup { Request("GET", PathBooks \o <<x>>, KeyAbsent, EmptyObj, NoQuery) :
             x \in BookSegs }
    \cup { Request("GET", p, KeyAbsent, EmptyObj, q) :
             p \in { <<>>, <<SegApi>>, PathBooks, PathBooks \o <<SegDateRange>> },
             q \in {Year2024} }

\* The requests of the sequential server on reviews.json.
ReviewRequests ==
  { Request("POST", PathReviews, KeyValid, b, NoQuery) : b \in ReviewBodies }
    \cup { Request("GET", PathReviews \o <<SegBook, x>>, KeyAbsent, EmptyObj,
                   NoQuery) : x \in { <<"1">>, <<"9">> } }

\* The requests of the concurrent server: the creations that race, and the
\* reads that see what they leave.
RaceRequests ==
  { Request("POST", PathBooks, KeyValid, BodyBook, NoQuery),
    Request("POST", PathReviews, KeyValid, BodyReview, NoQuery),
    Request("POST", PathBooks, KeyWrong, BodyBook, NoQuery),
    Request("GET", PathBooks, KeyAbsent, EmptyObj, NoQuery),
    Request("GET", PathReviews \o <<SegBook, <<"1">>>>, KeyAbsent, EmptyObj,
            NoQuery) }

\* Date strings of the date-range queries and of the books' datePublished:
\* absent, empty, not a date, a month past 12, a day past the month's end,
\* a year alone, and plain dates.
DateAbc     == <<"a", "b", "c">>
DateMonth13 == <<"2", "0", "2", "4", "-", "1", "3", "-", "0", "1">>
DateDec31   == <<"2", "0", "2", "3", "-", "1", "2", "-", "3", "1">>
DateJan01   == <<"2", "0", "2", "4", "-", "0", "1", "-", "0", "1">>
DateFeb30   == <<"2", "0", "2", "4", "-", "0", "2", "-", "3", "0">>
DateMar01   == <<"2", "0", "2", "4", "-", "0", "3", "-", "0", "1">>
DateYear    == <<"2", "0", "2", "4">>

QueryDates ==
  {Undef, Str(<<>>), Str(DateMonth13), Str(DateDec31), Str(DateYear),
   Str(DateFeb30)}

BookDates ==
  {Str(DateAbc), Str(DateDec31), Str(DateJan01), Str(DateFeb30),
   Str(DateMar01)}

\* How many books the files of the date-range and top-rated checks hold.
MaxDateBooks == 3

MaxTopBooks == 11

\* Every sequence over S of length at most n.
SeqsUpTo(S, n) == UNION { [1..k -> S] : k \in 0..n }

DateFiles ==
  SeqsUpTo({ [SeedBook(<<"1">>, Date2022) EXCEPT !.datePublished = d] :
               d \in BookDates }, MaxDateBooks)

DateRequests ==
  { Request("GET", PathBooks \o <<SegDateRange>>, KeyAbsent, EmptyObj,
            [start |-> a, end |-> b]) : a \in QueryDates, b \in QueryDates }

\* Books of two scores, 1 * 2 and 3 * 1.
TopFiles ==
  SeqsUpTo({ [SeedBook(<<"1">>, Date2022) EXCEPT !.rating = Num(1)],
             [SeedBook(<<"2">>, Date2022) EXCEPT !.rating = Num(3),
                                                 !.reviewCount = Num(1)] },
           MaxTopBooks)

TopRequests ==
  { Request("GET", PathBooks \o <<x>>, KeyAbsent, EmptyObj, NoQuery) :
      x \in {SegTopRated, SegFeatured} }

\* Every request the specifications draw, and OnReceive tabulated on them.
AllRequests == BookRequests \cup ReviewRequests \cup RaceRequests \cup DateRequests \cup TopRequests

Received == [r \in AllRequests |-> OnReceive(r)]

(***************************************************************************)
(* Actions                                                                 *)
(***************************************************************************)
\* A request arrives in a free slot and runs up to its first await.  A POST
\* is taken only while its file is below its bound.
Receive(i, r) ==
  /\ req[i].pc \in {"idle", "done"}
  /\ Received[r].handler = "postBook" => Len(books) < MaxBooks
  /\ Received[r].handler = "postReview" => Len(reviews) < MaxReviews
  /\ req' = [req EXCEPT ![i] = Received[r]]
  /\ UNCHANGED <<books, reviews, uuids, lastCreated>>

\* readJsonFile resolves: a GET handler answers from the content; a POST
\* handler builds its record, pushes it on the content it read and starts
\* writeJsonFile.
ReadDone(i) ==
  /\ req[i].pc = "reading"
  /\ LET r  == req[i]
         io == Append(r.io, <<"read", FileOf(r.handler)>>)
     IN  IF r.handler = "postBook"
         THEN /\ req' = [req EXCEPT ![i] =
                           [r EXCEPT !.pc = "writing", !.snap = books, !.io = io,
                                     !.rec = BookToAdd(books, r.body)]]
              /\ UNCHANGED uuids
         ELSE IF r.handler = "postReview"
         THEN /\ req' = [req EXCEPT ![i] =
                           [r EXCEPT !.pc = "writing", !.snap = reviews, !.io = io,
                                     !.rec = ReviewToAdd(r.body, RandomUUID(uuids))]]
              /\ uuids' = uuids + 1
         ELSE /\ req' = [req EXCEPT ![i] =
                           [Answer(r, r.handler, Respond(r, books, reviews)) EXCEPT
                              !.io = io,
                              !.snap = IF FileOf(r.handler) = "books.json"
                                       THEN books ELSE reviews]]
              /\ UNCHANGED uuids
  /\ UNCHANGED <<books, reviews, lastCreated>>

\* writeJsonFile resolves: the file holds what the handler serialized, and
\* the handler answers 201 with its record.
WriteDone(i) ==
  /\ req[i].pc = "writing"
  /\ LET r == req[i]
     IN  /\ req' = [req EXCEPT ![i] =
                      [Answer(r, r.handler, Resp(201, Undef, <<r.rec>>)) EXCEPT
                         !.io = Append(r.io, <<"write", FileOf(r.handler)>>)]]
         /\ IF r.handler = "postBook"
            THEN /\ books' = PushRecord(r.snap, books, r.rec)
                 /\ lastCreated' = r.rec
                 /\ UNCHANGED reviews
            ELSE /\ reviews' = PushRecord(r.snap, reviews, r.rec)
                 /\ UNCHANGED <<books, lastCreated>>
  /\ UNCHANGED uuids

(***************************************************************************)
(* Specifications                                                          *)
(***************************************************************************)
Init ==
  /\ books \in InitBooks
  /\ reviews \in InitReviews
  /\ req = [i \in Slots |-> IdleReq]
  /\ uuids = 0
  /\ lastCreated = EmptyObj

\* The concurrent server: requests arrive while others wait for their files.
Arrive(i) == \E r \in RaceRequests : Receive(i, r)

Next == \E i \in Slots : Arrive(i) \/ ReadDone(i) \/ WriteDone(i)

Spec == Init /\ [][Next]_vars

\* The sequential server: a request arrives when the one before is
\* answered.  BookSpec draws the requests on books.json (and the
\* unauthorized ones), ReviewSpec those on reviews.json.
BookArrive == \E r \in BookRequests : Receive(1, r)

BookNext == BookArrive \/ ReadDone(1) \/ WriteDone(1)

BookSpec == Init /\ [][BookNext]_vars

ReviewArrive == \E r \in ReviewRequests : Receive(1, r)

ReviewNext == ReviewArrive \/ ReadDone(1) \/ WriteDone(1)

ReviewSpec == Init /\ [][ReviewNext]_vars

\* GET /api/books/date-range on every content of books.json.
DateInit ==
  /\ books \in DateFiles
  /\ reviews = <<>>
  /\ req = [i \in Slots |-> IdleReq]
  /\ uuids = 0
  /\ lastCreated = EmptyObj

DateArrive == \E r \in DateRequests : Receive(1, r)

DateNext == DateArrive \/ ReadDone(1)

DateSpec == DateInit /\ [][DateNext]_vars

\* GET /api/books/top-rated on every content of books.json.
TopInit ==
  /\ books \in TopFiles
  /\ reviews = <<>>
  /\ req = [i \in Slots |-> IdleReq]
  /\ uuids = 0
  /\ lastCreated = EmptyObj

TopArrive == \E r \in TopRequests : Receive(1, r)

TopNext == TopArrive \/ ReadDone(1)

TopSpec == TopInit /\ [][TopNext]_vars

(***************************************************************************)
(* Properties                                                              *)
(***************************************************************************)
Done(i) == req[i].pc = "done"

IsPost(r, path) == r.method = "POST" /\ r.path = path

Ids(xs) == { xs[k].id : k \in 1..Len(xs) }

\* C1: after any sequence of authorized POST /api/books requests that carry
\* title, author and price, no two records of books.json have the same id.
C1_UniqueBookIds ==
  \A a, b \in 1..Len(books) : a # b => books[a].id # books[b].id

\* The header is absent or its value is not one of the valid keys.
NoValidKey(key) ==
  key = <<>> \/ \A k \in 1..Len(VALID_API_KEYS) : key[1] # VALID_API_KEYS[k]

C3_400IffAbsent ==
  \A i \in Slots :
    (Done(i) /\ IsPost(req[i], PathBooks) /\ KeyAccepted(req[i].key))
    => LET absent == \/ req[i].body.title = Undef
                     \/ req[i].body.author = Undef
                     \/ req[i].body.price = Undef
       IN  /\ (req[i].status = 400) <=> absent
           /\ absent => req[i].io = <<>>
           /\ ~absent => req[i].status = 201

\* C4: two creations on the same file that both read the same content and
\* were both answered 201 leave the file with that content and only one of
\* the two new records.
C4_LostUpdate ==
  \A i, j \in Slots :
    ( /\ i # j /\ Done(i) /\ Done(j)
      /\ req[i].status = 201 /\ req[j].status = 201
      /\ req[i].handler = req[j].handler
      /\ req[i].snap = req[j].snap )
    => LET file == IF req[i].handler = "postBook" THEN books ELSE reviews
       IN  \/ file = Append(req[i].snap, req[i].rec)
           \/ file = Append(req[j].snap, req[j].rec)

\* Two POST /api/reviews raced: both were answered 201 with different
\* records, and reviews.json holds one of them only.
C4_Witness ==
  \E i, j \in Slots :
    /\ i # j /\ Done(i) /\ Done(j)
    /\ req[i].handler = "postReview" /\ req[j].handler = "postReview"
    /\ req[i].status = 201 /\ req[j].status = 201
    /\ req[i].snap = req[j].snap
    /\ req[i].rec # req[j].rec
    /\ Len(reviews) = Len(req[i].snap) + 1
    /\ \E k \in 1..Len(reviews) : reviews[k] = req[j].rec
    /\ \A k \in 1..Len(reviews) : reviews[k] # req[i].rec


\* The k-th smallest element of a set of indices.
NthOf(S, k) == CHOOSE m \in S : Cardinality({n \in S : n <= m}) = k

\* The elements of xs at the indices of S, in the order of xs.
Picked(xs, S) == [k \in 1..Cardinality(S) |-> xs[NthOf(S, k)]]

DateMissing(x) == x = Undef \/ x = Str(<<>>)

\* C5: GET /api/books/date-range is answered 400 if start or end is missing
\* or does not parse as a date or start is after end; otherwise 200 with
\* exactly the books whose datePublished lies in [start, end], in file
\* order, and count their number.
C5_DateRange ==
  \A i \in Slots :
    (Done(i) /\ req[i].handler = "dateRange")
    => LET q    == req[i].query
           from == DateValue(q.start)
           to   == DateValue(q.end)
           bad  == \/ DateMissing(q.start) \/ DateMissing(q.end)
                   \/ from.t # "num" \/ to.t # "num"
                   \/ from.v > to.v
           in   == { k \in 1..Len(req[i].snap) :
                       LET d == DateValue(req[i].snap[k].datePublished)
                       IN  d.t = "num" /\ from.v <= d.v /\ d.v <= to.v }
       IN  IF bad THEN req[i].status = 400 /\ req[i].io = <<>>
           ELSE /\ req[i].status = 200
                /\ req[i].snap = books
                /\ req[i].data = Picked(req[i].snap, in)
                /\ req[i].count = Num(Len(req[i].data))

\* A range was answered with a book published on its last day, one on its
\* first day, and a book of the file left out.
C5_Witness ==
  \E i \in Slots :
    /\ Done(i) /\ req[i].handler = "dateRange" /\ req[i].status = 200
    /\ req[i].query.start # req[i].query.end
    /\ \E k \in 1..Len(req[i].data) :
         DateValue(req[i].data[k].datePublished) = DateValue(req[i].query.end)
    /\ \E k \in 1..Len(req[i].data) :
         DateValue(req[i].data[k].datePublished) = DateValue(req[i].query.start)
    /\ Len(req[i].data) < Len(books)

\* rating * reviewCount of a book whose two fields are numbers.
ScoreOf(b) == Num(b.rating.v * b.reviewCount.v)

IsGetBook(r) ==
  r.method = "GET" /\ Len(r.path) = 3 /\ SubSeq(r.path, 1, 2) = PathBooks

\* The indices of the books of xs whose id is exactly the string x.
WithId(xs, x) == { k \in 1..Len(xs) : xs[k].id = Str(x) }

\* C8 as stated: GET /api/books/date-range, /featured and /top-rated go to
\* their literal-path handlers; every other GET /api/books/<x> goes to the
\* :id handler, answered 200 with a book whose id is exactly x when one
\* exists and 404 when none does.
C8_EveryOtherPathIsById ==
  \A i \in Slots :
    (Done(i) /\ IsGetBook(req[i]))
    => LET x == req[i].path[3]
       IN  CASE x = SegDateRange -> req[i].handler = "dateRange"
             [] x = SegFeatured  -> req[i].handler = "featured"
             [] x = SegTopRated  -> req[i].handler = "topRated"
             [] OTHER ->
                  /\ req[i].handler = "bookById"
                  /\ IF WithId(req[i].snap, x) # {}
                     THEN /\ req[i].status = 200
                          /\ Len(req[i].data) = 1
                          /\ req[i].data[1].id = Str(x)
                     ELSE req[i].status = 404

\* C8 amended: a last segment that is date-range, featured or top-rated in
\* any letter case goes to that literal-path handler, also when a book has
\* that id; a segment with a malformed percent-escape is answered 400
\* before any handler; every other segment x goes to the :id handler,
\* answered 200 with the first book whose id is exactly the URL-decoded x
\* when one exists and 404 when none does.
C8_Dispatch ==
  \A i \in Slots :
    (Done(i) /\ IsGetBook(req[i]))
    => LET x == req[i].path[3]
       IN  CASE FoldCase(x) = SegDateRange -> req[i].handler = "dateRange"
             [] FoldCase(x) = SegFeatured ->
                  /\ req[i].handler = "featured"
                  /\ \A k \in 1..Len(req[i].data) :
                       req[i].data[k].featured = Bool(TRUE)
             [] FoldCase(x) = SegTopRated -> req[i].handler = "topRated"
             [] OTHER ->
                  IF ~Decodable(x) THEN req[i].status = 400 /\ req[i].io = <<>>
                  ELSE /\ req[i].handler = "bookById"
                       /\ LET hits == WithId(req[i].snap, Decoded(x))
                          IN  IF hits # {}
                              THEN /\ req[i].status = 200
                                   /\ req[i].data = <<req[i].snap[NthOf(hits, 1)]>>
                              ELSE /\ req[i].status = 404
                                   /\ req[i].data = <<>>

\* GET /api/books/featured was answered by the featured handler while
\* books.json held a book whose id is "featured" and which is not featured.
C8_Witness ==
  \E i \in Slots :
    /\ Done(i) /\ IsGetBook(req[i]) /\ req[i].path[3] = SegFeatured
    /\ req[i].handler = "featured" /\ req[i].status = 200
    /\ \E k \in WithId(books, SegFeatured) :
         /\ books[k].featured = Bool(FALSE)
         /\ \A m \in 1..Len(req[i].data) : req[i].data[m] # books[k]

\* C9: an authorized POST /api/reviews is answered 400, reviews.json not
\* touched, when bookId, author, rating or comment is missing; otherwise it
\* is answered 201 and appends one record whose id is a generated
\* review-<random-id> distinct from every id already in reviews.json, whose
\* timestamp is the creation time and whose verified is false unless the
\* body sets it, whatever book the bookId names.
C9_ReviewCreated ==
  \A i \in Slots :
    (Done(i) /\ IsPost(req[i], PathReviews) /\ KeyAccepted(req[i].key))
    => LET b       == req[i].body
           missing == \/ b.bookId = Undef \/ b.author = Undef
                      \/ b.rating = Undef \/ b.comment = Undef
       IN  IF missing THEN req[i].status = 400 /\ req[i].io = <<>>
           ELSE /\ req[i].status = 201
                /\ reviews = Append(req[i].snap, req[i].rec)
                /\ req[i].rec.id \notin Ids(req[i].snap)
                /\ \E n \in 0..uuids :
                     req[i].rec.id = Str(ReviewIdPrefix \o RandomUUID(n))
                /\ req[i].rec.timestamp = Str(NowIso)
                /\ req[i].rec.verified
                     = (IF b.verified = Undef THEN Bool(FALSE) ELSE b.verified)
                /\ req[i].rec.bookId = b.bookId

\* C10: with no other request overlapping, a POST /api/books answered 201
\* with record R leaves books.json as its previous content with R last, and
\* a following GET /api/books/<R.id> is answered 200 with data equal to R.
C10_CreateThenRead ==
  /\ (Done(1) /\ req[1].handler = "postBook" /\ req[1].status = 201)
       => /\ books = Append(req[1].snap, req[1].rec)
          /\ req[1].data = <<req[1].rec>>
          /\ req[1].rec = lastCreated
  /\ ( /\ Done(1) /\ IsGetBook(req[1])
       /\ lastCreated # EmptyObj
       /\ req[1].path[3] = ToChars(lastCreated.id) )
       => /\ req[1].status = 200
          /\ req[1].data = <<lastCreated>>


=============================================================================
